---- MODULE Spec2Model ----
(***************************************************************************)
(* Model of TransportationGraph (src/graph_data.py): the graph store, the  *)
(* Dijkstra search, the route breakdown and the callers that total it, the *)
(* CSV and JSON exports and imports.                                       *)
(***************************************************************************)
EXTENDS Integers, Sequences, FiniteSets, TLC

VARIABLES nodes, edges, coordinates, call, ret

vars == <<nodes, edges, coordinates, call, ret>>

----------------------------------------------------------------------------
(* Bounds of the model *)

\* AddEdge is offered while the graph holds fewer than MaxEdges edges.
MaxEdges == 3
\* Bits of significand of the model's binary floating point (a double has 53).
MantBits == 11
\* Walks of up to Cardinality(nodes) - 1 + WalkSlack edges are enumerated.
WalkSlack == 1
\* Longest path handed to get_route_details by the route query.
MaxPathLen == 3
\* AddNode of a new identifier is offered while fewer than MaxNodes exist.
MaxNodes == 4
\* Every iteration order of the node set is drawn while it has at most
\* MaxPermuted nodes.
MaxPermuted == 4

----------------------------------------------------------------------------
(* Node identifiers.  Python orders str by code point; NodeOrder lists the *)
(* identifiers of the model in that order.                                 *)

NodeOrder ==
    <<" C ", "A", "B", "Balulang", "C", "Carmen", "D", "Gusa", "Indahag", "Iponan",
      "Nowhere", "Pagatpat", "Tagoloan", "Taguanao">>

Rank(n) == CHOOSE i \in 1..Len(NodeOrder) : NodeOrder[i] = n

\* Identifiers the mutations of the model draw from.
PoolNodes == {"A", "B", "C", "D"}

\* A node identifier no mutation of the model ever adds.
UnknownNode == "Nowhere"

WeightTypes == {"fare", "distance"}

----------------------------------------------------------------------------
(* Numbers.  Weights and costs are Python floats: a sum is rounded to the  *)
(* nearest value with MantBits bits of significand, ties to even.          *)

RECURSIVE Pow2(_)
Pow2(k) == IF k = 0 THEN 1 ELSE 2 * Pow2(k - 1)

RECURSIVE StepOf(_, _)
StepOf(x, s) == IF x < Pow2(MantBits) * s THEN s ELSE StepOf(x, 2 * s)

RoundNat(x) ==
    LET s == StepOf(x, 1)
        q == x \div s
        r == x % s
    IN  IF 2 * r < s THEN q * s
        ELSE IF 2 * r > s THEN (q + 1) * s
        ELSE IF q % 2 = 0 THEN q * s ELSE (q + 1) * s

FRound(x) == IF x >= 0 THEN RoundNat(x) ELSE 0 - RoundNat(0 - x)

\* a + b on floats
FAdd(a, b) == FRound(a + b)

\* float('inf'): larger than every cost the model can compute
Infinity == 1000000

\* A weight at which adding 1 is rounded away.
Big == Pow2(MantBits)

----------------------------------------------------------------------------
(* GraphStore *)

Graph(n, e, c) == [nodes |-> n, edges |-> e, coordinates |-> c]

EmptyMap == [x \in {} |-> x]

\* TransportationGraph.__init__
EmptyGraph == Graph({}, EmptyMap, EmptyMap)

Put(f, k, v) == [x \in (DOMAIN f) \cup {k} |-> IF x = k THEN v ELSE f[x]]

\* Absent coordinates (None); a coordinate pair is <<x, y>>.
NoCoords == << >>

\* Mutant: the adjacency entry is emptied on every call.
add_node_Reset(g, node, coords) ==
    Graph(g.nodes \cup {node},
          Put(g.edges, node, << >>),
          IF Len(coords) > 0 THEN Put(g.coordinates, node, coords)
                             ELSE g.coordinates)

\* add_node: a non-empty coordinates tuple is truthy
add_node(g, node, coords) ==
    Graph(g.nodes \cup {node},
          IF node \in DOMAIN g.edges THEN g.edges ELSE Put(g.edges, node, << >>),
          IF Len(coords) > 0 THEN Put(g.coordinates, node, coords)
                             ELSE g.coordinates)

\* Mutant: the entry is put at the front of the list.
AppendEntry_Front(g, node, entry) ==
    Graph(g.nodes, [g.edges EXCEPT ![node] = <<entry>> \o @], g.coordinates)

\* self.edges[node].append(entry)
AppendEntry(g, node, entry) ==
    Graph(g.nodes, [g.edges EXCEPT ![node] = Append(@, entry)], g.coordinates)

\* Mutant: the edge is recorded under its source only.
add_edge_OneWay(g, source, destination, distance, fare) ==
    LET g1 == add_node(g, source, NoCoords)
        g2 == add_node(g1, destination, NoCoords)
    IN  AppendEntry(g2, source, <<destination, distance, fare>>)

\* Mutant: the reverse entry carries the weights in the wrong order.
add_edge_SwappedBack(g, source, destination, distance, fare) ==
    LET g1 == add_node(g, source, NoCoords)
        g2 == add_node(g1, destination, NoCoords)
        g3 == AppendEntry(g2, source, <<destination, distance, fare>>)
    IN  AppendEntry(g3, destination, <<source, fare, distance>>)

add_edge(g, source, destination, distance, fare) ==
    LET g1 == add_node(g, source, NoCoords)
        g2 == add_node(g1, destination, NoCoords)
        g3 == AppendEntry(g2, source, <<destination, distance, fare>>)
    IN  AppendEntry(g3, destination, <<source, distance, fare>>)

\* Mutant: the entries are returned newest first.
RECURSIVE Reversed(_)
Reversed(q) == IF q = << >> THEN << >> ELSE Append(Reversed(Tail(q)), Head(q))

get_neighbors_NewestFirst(g, node) ==
    IF node \in DOMAIN g.edges THEN Reversed(g.edges[node]) ELSE << >>

\* get_neighbors: self.edges.get(node, [])
get_neighbors(g, node) ==
    IF node \in DOMAIN g.edges THEN g.edges[node] ELSE << >>

RECURSIVE SumLens(_, _)
SumLens(e, ks) ==
    IF ks = {} THEN 0
    ELSE LET k == CHOOSE x \in ks : TRUE
         IN  Len(e[k]) + SumLens(e, ks \ {k})

\* Number of edges held: every add_edge appends two adjacency entries.
NumEdges(g) == SumLens(g.edges, DOMAIN g.edges) \div 2

----------------------------------------------------------------------------
(* PathFinder *)

\* Python's list comparison on node paths: the first difference decides,
\* a proper prefix is smaller.
RECURSIVE SeqLess(_, _)
SeqLess(p, q) ==
    IF q = << >> THEN FALSE
    ELSE IF p = << >> THEN TRUE
    ELSE IF Head(p) # Head(q) THEN Rank(Head(p)) < Rank(Head(q))
    ELSE SeqLess(Tail(p), Tail(q))

\* Tuple comparison of two frontier entries (cost, node, path).
EntryLess(a, b) ==
    \/ a[1] < b[1]
    \/ a[1] = b[1] /\ Rank(a[2]) < Rank(b[2])
    \/ a[1] = b[1] /\ a[2] = b[2] /\ SeqLess(a[3], b[3])

\* Mutant: the largest entry is popped.
heappop_Largest(pq) == CHOOSE e \in pq : \A o \in pq \ {e} : EntryLess(o, e)

\* Mutant: among entries of equal cost the larger node is popped.
heappop_TiesByLargerNode(pq) ==
    CHOOSE e \in pq : \A o \in pq \ {e} :
        \/ e[1] < o[1]
        \/ e[1] = o[1] /\ Rank(o[2]) < Rank(e[2])
        \/ e[1] = o[1] /\ e[2] = o[2] /\ SeqLess(e[3], o[3])

\* heapq.heappop: the smallest entry of the frontier.  The frontier is kept
\* as the set of its entries; two pushes never carry the same tuple.
heappop(pq) == CHOOSE e \in pq : \A o \in pq \ {e} : EntryLess(e, o)

\* Mutant: both weights of the entry count.
Weight_Sum(entry, weight_type) == FAdd(entry[2], entry[3])

\* weight = fare if weight_type == 'fare' else distance
Weight(entry, weight_type) ==
    IF weight_type = "fare" THEN entry[3] ELSE entry[2]

\* Mutant: the pushed path is not extended by the neighbour.
RelaxEntry_StalePath(s, entry, current_cost, path, visited, weight_type) ==
    LET neighbor == entry[1]
        new_cost == FAdd(current_cost, Weight(entry, weight_type))
    IN  IF neighbor \notin visited /\ new_cost < s.distances[neighbor]
        THEN [distances |-> [s.distances EXCEPT ![neighbor] = new_cost],
              pq        |-> s.pq \cup {<<new_cost, neighbor, path>>}]
        ELSE s

\* Mutant: the weight is taken off the cost so far.
RelaxEntry_Subtracts(s, entry, current_cost, path, visited, weight_type) ==
    LET neighbor == entry[1]
        new_cost == FAdd(current_cost, 0 - Weight(entry, weight_type))
    IN  IF neighbor \notin visited /\ new_cost < s.distances[neighbor]
        THEN [distances |-> [s.distances EXCEPT ![neighbor] = new_cost],
              pq        |-> s.pq \cup {<<new_cost, neighbor, Append(path, neighbor)>>}]
        ELSE s

\* The body of the neighbour loop for one adjacency entry; s holds the
\* distances table and the frontier.
RelaxEntry(s, entry, current_cost, path, visited, weight_type) ==
    LET neighbor == entry[1]
        new_cost == FAdd(current_cost, Weight(entry, weight_type))
    IN  IF neighbor \notin visited /\ new_cost < s.distances[neighbor]
        THEN [distances |-> [s.distances EXCEPT ![neighbor] = new_cost],
              pq        |-> s.pq \cup {<<new_cost, neighbor, Append(path, neighbor)>>}]
        ELSE s

\* Mutant: the neighbour loop stops after its first entry.
RelaxFrom_FirstOnly(s, nbrs, k, current_cost, path, visited, weight_type) ==
    IF k > Len(nbrs) THEN s
    ELSE RelaxEntry(s, nbrs[k], current_cost, path, visited, weight_type)

RECURSIVE RelaxFrom(_, _, _, _, _, _, _)
RelaxFrom(s, nbrs, k, current_cost, path, visited, weight_type) ==
    IF k > Len(nbrs) THEN s
    ELSE RelaxFrom(RelaxEntry(s, nbrs[k], current_cost, path, visited, weight_type),
                   nbrs, k + 1, current_cost, path, visited, weight_type)

NoPath == [path |-> << >>, cost |-> Infinity]

\* Mutant: the first frontier entry carries an empty path.
DijkstraStart_EmptyPath(g, start) ==
    [pq        |-> {<<0, start, << >>>>},
     visited   |-> {},
     distances |-> [n \in g.nodes |-> IF n = start THEN 0 ELSE Infinity],
     done      |-> FALSE,
     result    |-> [path |-> << >>, cost |-> Infinity]]

\* The state of a search before the first iteration of the while loop.
DijkstraStart(g, start) ==
    [pq        |-> {<<0, start, <<start>>>>},
     visited   |-> {},
     distances |-> [n \in g.nodes |-> IF n = start THEN 0 ELSE Infinity],
     done      |-> FALSE,
     result    |-> NoPath]

\* distances = {node: float('inf') for node in self.nodes}, filled in the
\* order in which the set yields its nodes.
RECURSIVE FillDistances(_, _, _)
FillDistances(distances, order, k) ==
    IF k > Len(order) THEN distances
    ELSE FillDistances(Put(distances, order[k], Infinity), order, k + 1)

\* The state before the first iteration when self.nodes is iterated in the
\* given order.
DijkstraStartIn(g, start, order) ==
    [pq        |-> {<<0, start, <<start>>>>},
     visited   |-> {},
     distances |-> Put(FillDistances(EmptyMap, order, 1), start, 0),
     done      |-> FALSE,
     result    |-> NoPath]

\* Mutant: a popped node is not put into visited.
DijkstraIter_NoSettle(g, st, end, weight_type) ==
    IF st.pq = {} THEN [st EXCEPT !.done = TRUE, !.result = NoPath]
    ELSE
      LET top          == heappop(st.pq)
          current_cost == top[1]
          current_node == top[2]
          path         == top[3]
          rest         == st.pq \ {top}
      IN  IF current_node \in st.visited
          THEN [st EXCEPT !.pq = rest]
          ELSE IF current_node = end
          THEN [st EXCEPT !.pq = rest,
                          !.done = TRUE,
                          !.result = [path |-> path, cost |-> current_cost]]
          ELSE LET s == RelaxFrom([distances |-> st.distances, pq |-> rest],
                                  get_neighbors(g, current_node), 1,
                                  current_cost, path, st.visited, weight_type)
               IN  [st EXCEPT !.pq = s.pq, !.distances = s.distances]

\* Mutant: the search goes on past the pop of the destination.
DijkstraIter_PastEnd(g, st, end, weight_type) ==
    IF st.pq = {} THEN [st EXCEPT !.done = TRUE, !.result = NoPath]
    ELSE
      LET top          == heappop(st.pq)
          current_cost == top[1]
          current_node == top[2]
          path         == top[3]
          rest         == st.pq \ {top}
      IN  IF current_node \in st.visited
          THEN [st EXCEPT !.pq = rest]
          ELSE LET vis == st.visited \cup {current_node}
                   s   == RelaxFrom([distances |-> st.distances, pq |-> rest],
                                    get_neighbors(g, current_node), 1,
                                    current_cost, path, vis, weight_type)
               IN  [st EXCEPT !.pq = s.pq, !.visited = vis,
                              !.distances = s.distances]

\* One iteration of "while pq"; an empty frontier ends the search with the
\* sentinel.
DijkstraIter(g, st, end, weight_type) ==
    IF st.pq = {} THEN [st EXCEPT !.done = TRUE, !.result = NoPath]
    ELSE
      LET top          == heappop(st.pq)
          current_cost == top[1]
          current_node == top[2]
          path         == top[3]
          rest         == st.pq \ {top}
      IN  IF current_node \in st.visited THEN [st EXCEPT !.pq = rest]
          ELSE IF current_node = end
          THEN [st EXCEPT !.pq = rest,
                          !.visited = @ \cup {current_node},
                          !.done = TRUE,
                          !.result = [path |-> path, cost |-> current_cost]]
          ELSE LET vis == st.visited \cup {current_node}
                   s   == RelaxFrom([distances |-> st.distances, pq |-> rest],
                                    get_neighbors(g, current_node), 1,
                                    current_cost, path, vis, weight_type)
               IN  [st EXCEPT !.pq = s.pq, !.visited = vis,
                              !.distances = s.distances]

RECURSIVE DijkstraLoop(_, _, _, _)
DijkstraLoop(g, st, end, weight_type) ==
    IF st.done THEN st.result
    ELSE DijkstraLoop(g, DijkstraIter(g, st, end, weight_type), end, weight_type)

\* Mutant: the search runs without the membership test.
dijkstra_Unguarded(g, start, end, weight_type) ==
    DijkstraLoop(g, DijkstraStart(g, start), end, weight_type)

dijkstra(g, start, end, weight_type) ==
    IF start \notin g.nodes \/ end \notin g.nodes THEN NoPath
    ELSE DijkstraLoop(g, DijkstraStart(g, start), end, weight_type)

\* Mutant: the start is given a result too.
RECURSIVE AllPathsLoop_WithStart(_, _, _, _, _)
AllPathsLoop_WithStart(g, start, weight_type, todo, paths) ==
    IF todo = {} THEN paths
    ELSE LET node == CHOOSE n \in todo : TRUE
         IN  AllPathsLoop_WithStart(g, start, weight_type, todo \ {node},
                 Put(paths, node, dijkstra(g, start, node, weight_type)))

\* The loop of get_all_paths over the nodes still to visit; the mapping it
\* builds does not depend on the order of the visits.
RECURSIVE AllPathsLoop(_, _, _, _, _)
AllPathsLoop(g, start, weight_type, todo, paths) ==
    IF todo = {} THEN paths
    ELSE LET node == CHOOSE n \in todo : TRUE
         IN  AllPathsLoop(g, start, weight_type, todo \ {node},
                 IF node # start
                 THEN Put(paths, node, dijkstra(g, start, node, weight_type))
                 ELSE paths)

get_all_paths(g, start, weight_type) ==
    AllPathsLoop(g, start, weight_type, g.nodes, EmptyMap)

----------------------------------------------------------------------------
(* RouteReporter *)

\* Mutant: the last entry that names next_node is taken.
RECURSIVE FirstMatch_Last(_, _, _)
FirstMatch_Last(nbrs, next_node, k) ==
    IF k > Len(nbrs) THEN 0
    ELSE LET later == FirstMatch_Last(nbrs, next_node, k + 1)
         IN  IF later # 0 THEN later
             ELSE IF nbrs[k][1] = next_node THEN k ELSE 0

\* The first entry of nbrs that names next_node, from position k on; 0 if none.
RECURSIVE FirstMatch(_, _, _)
FirstMatch(nbrs, next_node, k) ==
    IF k > Len(nbrs) THEN 0
    ELSE IF nbrs[k][1] = next_node THEN k
    ELSE FirstMatch(nbrs, next_node, k + 1)

\* Mutant: the record's distance and fare are taken from each other's place.
DetailFor_Swapped(g, path, i) ==
    LET nbrs == get_neighbors(g, path[i])
        k    == FirstMatch(nbrs, path[i + 1], 1)
    IN  IF k = 0 THEN << >>
        ELSE << [from |-> path[i], to |-> path[i + 1],
                 distance |-> nbrs[k][3], fare |-> nbrs[k][2]] >>

\* The record appended for path[i] -> path[i+1], as a sequence of 0 or 1 records.
DetailFor(g, path, i) ==
    LET nbrs == get_neighbors(g, path[i])
        k    == FirstMatch(nbrs, path[i + 1], 1)
    IN  IF k = 0 THEN << >>
        ELSE << [from |-> path[i], to |-> path[i + 1],
                 distance |-> nbrs[k][2], fare |-> nbrs[k][3]] >>

\* Mutant: the last leg of the path is left out.
RECURSIVE DetailsFrom_ShortByOne(_, _, _)
DetailsFrom_ShortByOne(g, path, i) ==
    IF i > Len(path) - 2 THEN << >>
    ELSE DetailFor(g, path, i) \o DetailsFrom_ShortByOne(g, path, i + 1)

RECURSIVE DetailsFrom(_, _, _)
DetailsFrom(g, path, i) ==
    IF i > Len(path) - 1 THEN << >>
    ELSE DetailFor(g, path, i) \o DetailsFrom(g, path, i + 1)

\* get_route_details returns the list of records and nothing else: the
\* totals it accumulates are local and dropped.
get_route_details(g, path) ==
    IF Len(path) < 2 THEN << >> ELSE DetailsFrom(g, path, 1)

\* sum(detail[field] for detail in details): a left fold from 0
RECURSIVE SumField(_, _, _)
SumField(details, field, k) ==
    IF k = 0 THEN 0
    ELSE FAdd(SumField(details, field, k - 1), details[k][field])

----------------------------------------------------------------------------
(* The seed network *)

SeedCoords ==
    << <<"Tagoloan", <<0, 0>>>>, <<"Gusa", <<20, 10>>>>,
       <<"Balulang", <<10, 5>>>>, <<"Carmen", <<25, 0>>>>,
       <<"Pagatpat", <<15, 15>>>>, <<"Iponan", <<30, 20>>>>,
       <<"Indahag", <<35, 25>>>>, <<"Taguanao", <<25, 30>>>> >>

\* (origin, destination, distance in tenths of a km, fare in pesos)
SeedRoutes ==
    << <<"Tagoloan", "Gusa", 229, 30>>, <<"Tagoloan", "Balulang", 155, 25>>,
       <<"Tagoloan", "Carmen", 300, 40>>, <<"Gusa", "Balulang", 100, 15>>,
       <<"Gusa", "Carmen", 200, 25>>, <<"Balulang", "Pagatpat", 120, 20>>,
       <<"Carmen", "Iponan", 180, 35>>, <<"Pagatpat", "Taguanao", 250, 30>>,
       <<"Iponan", "Indahag", 140, 20>>, <<"Taguanao", "Indahag", 160, 25>> >>

RECURSIVE AddNodes(_, _, _)
AddNodes(g, ncs, k) ==
    IF k > Len(ncs) THEN g
    ELSE AddNodes(add_node(g, ncs[k][1], ncs[k][2]), ncs, k + 1)

\* for origin, destination, distance, fare in routes: graph.add_edge(...)
RECURSIVE AddEdges(_, _, _)
AddEdges(g, routes, k) ==
    IF k > Len(routes) THEN g
    ELSE AddEdges(add_edge(g, routes[k][1], routes[k][2], routes[k][3], routes[k][4]),
                  routes, k + 1)

create_transportation_network ==
    AddEdges(AddNodes(EmptyGraph, SeedCoords, 1), SeedRoutes, 1)

----------------------------------------------------------------------------
(* Codec: import *)

\* row.get(key) of a column the row does not have
None == "<None>"

\* Python truthiness of a cell: None and '' are falsy
Truthy(v) == v # None /\ v # ""

\* str.strip on the cells of the model
Strip(v) == CASE v = " C " -> "C" [] v = "  " -> "" [] OTHER -> v

\* The numbers whose decimal text the files of the model hold: the small
\* weights, the large one and the weights of the seed network.
Numerals ==
    ((0 - 2)..4) \cup {Big}
        \cup {SeedRoutes[i][3] : i \in 1..Len(SeedRoutes)}
        \cup {SeedRoutes[i][4] : i \in 1..Len(SeedRoutes)}

\* str(number): the decimal text csv.writer and json.dump write
Str(n) == ToString(n)

\* float(str): the cells that parse, with their values
FloatTable ==
    [t \in {Str(n) : n \in Numerals} |-> CHOOSE n \in Numerals : Str(n) = t]

Parses(v) == v \in DOMAIN FloatTable

\* csv.DictReader: the cell of the row under the column named key
RowGet(header, cells, key) ==
    LET idx == {i \in 1..Len(header) : header[i] = key /\ i <= Len(cells)}
    IN  IF idx = {} THEN None ELSE cells[CHOOSE i \in idx : \A j \in idx : j <= i]

\* row.get(k1) or row.get(k2) or ... or default
RECURSIVE FirstTruthy(_, _, _, _, _)
FirstTruthy(header, cells, keys, k, default) ==
    IF k > Len(keys) THEN default
    ELSE LET v == RowGet(header, cells, keys[k])
         IN  IF Truthy(v) THEN v
             ELSE FirstTruthy(header, cells, keys, k + 1, default)

OriginKeys == <<"Origin", "origin", "From", "from">>
DestinationKeys == <<"Destination", "destination", "To", "to">>
DistanceKeys == <<"Distance_km", "Distance (km)", "distance", "Distance">>
\* "Fare (P)" stands for the header spelt with the peso sign.
FareKeys == <<"Fare_pesos", "Fare (P)", "Fare (pesos)", "fare", "Fare">>

\* The outcome of an import: the graph it leaves and the exception raised.
Outcome(g, raised) == [g |-> g, raised |-> raised]

\* The body of the row loop of import_from_csv.
CsvRow(g, header, cells) ==
    LET origin       == Strip(FirstTruthy(header, cells, OriginKeys, 1, ""))
        destination  == Strip(FirstTruthy(header, cells, DestinationKeys, 1, ""))
        distance_str == FirstTruthy(header, cells, DistanceKeys, 1, "0")
        fare_str     == FirstTruthy(header, cells, FareKeys, 1, "0")
    IN  IF origin # "" /\ destination # ""
        THEN IF Parses(distance_str) /\ Parses(fare_str)
             THEN Outcome(add_edge(g, origin, destination,
                                   FloatTable[distance_str], FloatTable[fare_str]),
                          "none")
             ELSE Outcome(g, "ValueError")
        ELSE Outcome(g, "none")

RECURSIVE CsvRows(_, _, _, _)
CsvRows(g, header, rows, k) ==
    IF k > Len(rows) THEN Outcome(g, "none")
    ELSE LET o == CsvRow(g, header, rows[k])
         IN  IF o.raised # "none" THEN o ELSE CsvRows(o.g, header, rows, k + 1)

\* Mutant: the import starts from the graph as it is.
Cleared_Kept(g) == g

\* Mutant: the reset leaves the node set as it is.
Cleared_NodesKept(g) == Graph(g.nodes, EmptyMap, EmptyMap)

\* The first three statements of both imports: the node set, the adjacency
\* and the coordinates are replaced by empty ones.
Cleared(g) == EmptyGraph

\* Mutant: the file is opened before the graph is reset.
import_from_csv_OpenFirst(g, file) ==
    IF ~file.readable THEN Outcome(g, "OSError")
    ELSE CsvRows(Cleared(g), file.header, file.rows, 1)

\* import_from_csv into graph g: the graph is reset before the file is opened
import_from_csv(g, file) ==
    IF ~file.readable THEN Outcome(Cleared(g), "OSError")
    ELSE CsvRows(Cleared(g), file.header, file.rows, 1)

\* float(value) of a JSON value: a number <<"num", n>> or a string <<"str", s>>
JsonParses(v) == v[1] = "num" \/ Parses(v[2])

JsonFloat(v) == IF v[1] = "num" THEN v[2] ELSE FloatTable[v[2]]

\* The body of the record loop of import_from_json.
JsonRoute(g, route) ==
    IF {"origin", "destination", "distance", "fare"} \subseteq DOMAIN route
    THEN IF JsonParses(route.distance) /\ JsonParses(route.fare)
         THEN Outcome(add_edge(g, route.origin, route.destination,
                               JsonFloat(route.distance), JsonFloat(route.fare)),
                      "none")
         ELSE Outcome(g, "ValueError")
    ELSE IF "origin" \in DOMAIN route /\ "destination" \in DOMAIN route
              /\ "distance" \in DOMAIN route /\ ~JsonParses(route.distance)
         THEN Outcome(g, "ValueError")
         ELSE Outcome(g, "KeyError")

RECURSIVE JsonRoutes(_, _, _)
JsonRoutes(g, routes, k) ==
    IF k > Len(routes) THEN Outcome(g, "none")
    ELSE LET o == JsonRoute(g, routes[k])
         IN  IF o.raised # "none" THEN o ELSE JsonRoutes(o.g, routes, k + 1)

\* Mutant: the records are looked for under routes alone.
import_from_json_RoutesOnly(g, doc) ==
    IF ~doc.readable THEN Outcome(Cleared(g), "OSError")
    ELSE IF doc.kind = "object" /\ "routes" \in DOMAIN doc.members
         THEN JsonRoutes(Cleared(g), doc.members.routes, 1)
    ELSE IF doc.kind = "object" /\ DOMAIN doc.members = {}
         THEN Outcome(Cleared(g), "none")
    ELSE Outcome(Cleared(g), "TypeError")

import_from_json(g, doc) ==
    IF ~doc.readable THEN Outcome(Cleared(g), "OSError")
    ELSE IF doc.kind = "array" THEN JsonRoutes(Cleared(g), doc.items, 1)
    ELSE IF "routes" \in DOMAIN doc.members
         THEN JsonRoutes(Cleared(g), doc.members.routes, 1)
    ELSE IF "edges" \in DOMAIN doc.members
         THEN JsonRoutes(Cleared(g), doc.members.edges, 1)
    ELSE IF DOMAIN doc.members = {} THEN Outcome(Cleared(g), "none")
    ELSE Outcome(Cleared(g), "TypeError")

----------------------------------------------------------------------------
(* Codec: export *)

\* Mutant: a pair is written once per direction it is met in.
RECURSIVE ExportEntries_Directed(_, _, _, _)
ExportEntries_Directed(st, node, nbrs, k) ==
    IF k > Len(nbrs) THEN st
    ELSE LET neighbor == nbrs[k][1]
             edge     == <<node, neighbor>>
         IN  ExportEntries_Directed(
                 IF edge \in st.written_edges THEN st
                 ELSE [rows |-> Append(st.rows, <<node, neighbor,
                                                  nbrs[k][2], nbrs[k][3]>>),
                       written_edges |-> st.written_edges \cup {edge}],
                 node, nbrs, k + 1)

\* The inner loop of both exports over the entries of one node; the sorted
\* pair of names is the unordered pair {node, neighbor}.
RECURSIVE ExportEntries(_, _, _, _)
ExportEntries(st, node, nbrs, k) ==
    IF k > Len(nbrs) THEN st
    ELSE LET neighbor == nbrs[k][1]
             edge     == {node, neighbor}
         IN  ExportEntries(
                 IF edge \in st.written_edges THEN st
                 ELSE [rows |-> Append(st.rows, <<node, neighbor,
                                                  nbrs[k][2], nbrs[k][3]>>),
                       written_edges |-> st.written_edges \cup {edge}],
                 node, nbrs, k + 1)

\* The outer loop "for node in self.nodes"; order is the order in which the
\* set yields its elements.
RECURSIVE ExportNodes(_, _, _, _)
ExportNodes(g, order, i, st) ==
    IF i > Len(order) THEN st
    ELSE ExportNodes(g, order, i + 1,
                     ExportEntries(st, order[i], get_neighbors(g, order[i]), 1))

\* The (node, neighbor, distance, fare) records both exports write.
ExportRows(g, order) ==
    ExportNodes(g, order, 1, [rows |-> << >>, written_edges |-> {}]).rows

CsvHeader == <<"Origin", "Destination", "Distance_km", "Fare_pesos">>

\* export_to_csv: the header, then a row of texts per record
export_to_csv(g, order) ==
    LET rows == ExportRows(g, order)
    IN  [readable |-> TRUE,
         header   |-> CsvHeader,
         rows     |-> [i \in 1..Len(rows) |->
                         <<rows[i][1], rows[i][2],
                           Str(rows[i][3]), Str(rows[i][4])>>]]

\* A number as json.dump writes it and json.load reads it back.
JsonNumber(n) == <<"num", FloatTable[Str(n)]>>

\* export_to_json: the metadata and the records under routes
export_to_json(g, order) ==
    LET rows == ExportRows(g, order)
    IN  [readable |-> TRUE,
         kind     |-> "object",
         members  |->
             [metadata |-> [description      |-> "Transportation Network Data",
                            total_nodes      |-> Cardinality(g.nodes),
                            total_routes     |-> Len(rows),
                            export_timestamp |-> "now",
                            nodes            |-> order],
              routes   |-> [i \in 1..Len(rows) |->
                              [origin      |-> rows[i][1],
                               destination |-> rows[i][2],
                               distance    |-> JsonNumber(rows[i][3]),
                               fare        |-> JsonNumber(rows[i][4])]]]]

----------------------------------------------------------------------------
(* NetworkStatistics *)

\* Mutant: every adjacency entry is counted, the two of one edge apart.
RECURSIVE StatsEntries_NoDedup(_, _, _, _)
StatsEntries_NoDedup(st, node, nbrs, k) ==
    IF k > Len(nbrs) THEN st
    ELSE StatsEntries_NoDedup(
             [distances     |-> Append(st.distances, nbrs[k][2]),
              fares         |-> Append(st.fares, nbrs[k][3]),
              written_edges |-> st.written_edges \cup {{node, nbrs[k][1]}}],
             node, nbrs, k + 1)

\* The inner loop of get_network_statistics over the entries of one node.
RECURSIVE StatsEntries(_, _, _, _)
StatsEntries(st, node, nbrs, k) ==
    IF k > Len(nbrs) THEN st
    ELSE LET edge == {node, nbrs[k][1]}
         IN  StatsEntries(
                 IF edge \in st.written_edges THEN st
                 ELSE [distances     |-> Append(st.distances, nbrs[k][2]),
                       fares         |-> Append(st.fares, nbrs[k][3]),
                       written_edges |-> st.written_edges \cup {edge}],
                 node, nbrs, k + 1)

RECURSIVE StatsNodes(_, _, _, _)
StatsNodes(g, order, i, st) ==
    IF i > Len(order) THEN st
    ELSE StatsNodes(g, order, i + 1,
                    StatsEntries(st, order[i], get_neighbors(g, order[i]), 1))

\* min(values) if values else 0, and the same for max
MinOrZero(values) ==
    IF values = << >> THEN 0
    ELSE CHOOSE m \in {values[i] : i \in 1..Len(values)} :
             \A i \in 1..Len(values) : m <= values[i]

MaxOrZero(values) ==
    IF values = << >> THEN 0
    ELSE CHOOSE m \in {values[i] : i \in 1..Len(values)} :
             \A i \in 1..Len(values) : m >= values[i]

\* sum(values): a left fold from 0
RECURSIVE SumSeq(_, _)
SumSeq(values, k) ==
    IF k = 0 THEN 0 ELSE FAdd(SumSeq(values, k - 1), values[k])

\* sorted(list(self.nodes))
RECURSIVE SortedNodes(_)
SortedNodes(S) ==
    IF S = {} THEN << >>
    ELSE LET n == CHOOSE x \in S : \A y \in S : Rank(x) <= Rank(y)
         IN  <<n>> \o SortedNodes(S \ {n})

\* get_network_statistics: the empty dict for a graph without nodes, else
\* the statistics of the deduplicated scan.  The averages and the
\* efficiencies, which are quotients, are left out of the record.
get_network_statistics(g, order) ==
    IF g.nodes = {} THEN EmptyMap
    ELSE LET st == StatsNodes(g, order, 1,
                       [distances |-> << >>, fares |-> << >>,
                        written_edges |-> {}])
         IN  [total_nodes    |-> Cardinality(g.nodes),
              total_edges    |-> Len(st.distances),
              nodes          |-> SortedNodes(g.nodes),
              distance_stats |-> [min   |-> MinOrZero(st.distances),
                                  max   |-> MaxOrZero(st.distances),
                                  total |-> SumSeq(st.distances,
                                                   Len(st.distances))],
              fare_stats     |-> [min   |-> MinOrZero(st.fares),
                                  max   |-> MaxOrZero(st.fares),
                                  total |-> SumSeq(st.fares, Len(st.fares))],
              connectivity   |-> [n \in g.nodes |->
                                     Len(get_neighbors(g, n))]]

----------------------------------------------------------------------------
(* State and actions *)

\* The graph object the operations act on.
G == Graph(nodes, edges, coordinates)

SetGraph(g) ==
    /\ nodes' = g.nodes
    /\ edges' = g.edges
    /\ coordinates' = g.coordinates

NoCall == [op |-> "none"]
NoRet == [none |-> TRUE]

\* Edges add_edge is called with: a chain A-B-C-D whose first distance is
\* large enough for rounding, a chord, a parallel edge, a self-loop, a
\* zero fare and a negative distance.
EdgePool ==
    { <<"A", "B", Big, 1>>, <<"B", "C", 1, 2>>, <<"C", "D", 1, 0>>,
      <<"A", "C", 2, 4>>, <<"B", "A", 3, 2>>, <<"B", "B", 1, 1>>,
      <<"D", "C", -2, 1>> }

CoordPool == {NoCoords, <<0, 0>>, <<1, 2>>}

\* The nodes add_node is given coordinates for.
CoordNodes == {"A", "B"}

\* Files import_from_csv is called with: one that cannot be opened, one in
\* the format of the export, one with alias headers, blank cells and a short
\* row, one with a cell that is no number.
CsvFiles ==
    << [readable |-> FALSE, header |-> << >>, rows |-> << >>],
       [readable |-> TRUE,
        header |-> <<"Origin", "Destination", "Distance_km", "Fare_pesos">>,
        rows |-> << <<"A", "B", "3", "2">>, <<"B", "C", "1", "2">> >>],
       [readable |-> TRUE,
        header |-> <<"From", "To", "Distance", "Fare">>,
        rows |-> << <<" C ", "D", "1", "0">>, <<"  ", "D", "1", "1">>,
                    <<"D", "A", "2">> >>],
       [readable |-> TRUE,
        header |-> <<"origin", "destination", "distance", "fare">>,
        rows |-> << <<"A", "B", "2", "1">>, <<"B", "C", "abc", "1">>,
                    <<"C", "D", "1", "1">> >>] >>

JsonRecords ==
    << [origin |-> "A", destination |-> "B",
        distance |-> <<"num", 3>>, fare |-> <<"num", 2>>],
       [origin |-> "B", destination |-> "C",
        distance |-> <<"str", "1">>, fare |-> <<"num", 2>>] >>

\* Documents import_from_json is called with: one that cannot be opened,
\* the same records under routes, under edges and as an array, an array
\* whose second record lacks its fare, an object with neither key, and a
\* record whose origin has blanks around its name.
JsonDocs ==
    << [readable |-> FALSE, kind |-> "array", items |-> << >>],
       [readable |-> TRUE, kind |-> "object",
        members |-> [metadata |-> << >>, routes |-> JsonRecords]],
       [readable |-> TRUE, kind |-> "object",
        members |-> [edges |-> JsonRecords]],
       [readable |-> TRUE, kind |-> "array", items |-> JsonRecords],
       [readable |-> TRUE, kind |-> "array",
        items |-> << JsonRecords[1],
                     [origin |-> "B", destination |-> "D",
                      distance |-> <<"num", 1>>] >>],
       [readable |-> TRUE, kind |-> "object",
        members |-> [metadata |-> << >>]],
       [readable |-> TRUE, kind |-> "array",
        items |-> << [origin |-> " C ", destination |-> "D",
                      distance |-> <<"num", 1>>, fare |-> <<"num", 0>>] >>] >>

Init ==
    /\ nodes = EmptyGraph.nodes
    /\ edges = EmptyGraph.edges
    /\ coordinates = EmptyGraph.coordinates
    /\ call = NoCall
    /\ ret = NoRet

\* Execution is single-threaded and synchronous: an operation starts only
\* when no call is in flight.
Idle == call = NoCall

AddNode(node, coords) ==
    /\ Idle
    /\ node \in nodes \/ Cardinality(nodes) < MaxNodes
    /\ SetGraph(add_node(G, node, coords))
    /\ call' = NoCall
    /\ ret' = NoRet

AddEdge(e) ==
    /\ Idle
    /\ NumEdges(G) < MaxEdges
    /\ SetGraph(add_edge(G, e[1], e[2], e[3], e[4]))
    /\ call' = NoCall
    /\ ret' = NoRet

CreateNetwork ==
    /\ Idle
    /\ SetGraph(create_transportation_network)
    /\ call' = NoCall
    /\ ret' = NoRet

ImportCsv(k) ==
    LET o == import_from_csv(G, CsvFiles[k])
    IN  /\ Idle
        /\ SetGraph(o.g)
        /\ call' = [op |-> "import_from_csv", file |-> k]
        /\ ret' = [raised |-> o.raised]

ImportJson(k) ==
    LET o == import_from_json(G, JsonDocs[k])
    IN  /\ Idle
        /\ SetGraph(o.g)
        /\ call' = [op |-> "import_from_json", file |-> k]
        /\ ret' = [raised |-> o.raised]

\* Arguments of the queries: every node of the graph and one unknown name.
QueryNodes == nodes \cup {UnknownNode}

DijkstraCall(start, end, weight_type) ==
    /\ Idle
    /\ call' = [op |-> "dijkstra", start |-> start, end |-> end,
                weight_type |-> weight_type]
    /\ ret' = dijkstra(G, start, end, weight_type)
    /\ UNCHANGED <<nodes, edges, coordinates>>

\* The body of the test loop: the search, then the breakdown of its path
\* and the totals of the breakdown.
RouteTest(origin, destination, optimization) ==
    LET r       == dijkstra(G, origin, destination, optimization)
        details == IF r.path # << >> THEN get_route_details(G, r.path) ELSE << >>
    IN  /\ Idle
        /\ call' = [op |-> "route_test", start |-> origin, end |-> destination,
                    weight_type |-> optimization]
        /\ ret' = [path |-> r.path, cost |-> r.cost, details |-> details,
                   total_distance |-> SumField(details, "distance", Len(details)),
                   total_fare |-> SumField(details, "fare", Len(details))]
        /\ UNCHANGED <<nodes, edges, coordinates>>

RECURSIVE SeqsUpTo(_, _)
SeqsUpTo(S, n) ==
    IF n = 0 THEN {<< >>}
    ELSE LET shorter == SeqsUpTo(S, n - 1)
         IN  shorter \cup {Append(p, x) : p \in shorter, x \in S}

GetRouteDetails(path) ==
    /\ Idle
    /\ call' = [op |-> "get_route_details", path |-> path]
    /\ ret' = [details |-> get_route_details(G, path)]
    /\ UNCHANGED <<nodes, edges, coordinates>>

\* Mutant: the lookup leaves an empty list behind for a node it does not
\* find.
GetNeighbors_Inserting(node) ==
    /\ Idle
    /\ call' = [op |-> "get_neighbors", node |-> node]
    /\ ret' = [neighbors |-> get_neighbors(G, node)]
    /\ edges' = IF node \in DOMAIN edges THEN edges ELSE Put(edges, node, << >>)
    /\ UNCHANGED <<nodes, coordinates>>

GetNeighbors(node) ==
    /\ Idle
    /\ call' = [op |-> "get_neighbors", node |-> node]
    /\ ret' = [neighbors |-> get_neighbors(G, node)]
    /\ UNCHANGED <<nodes, edges, coordinates>>

GetAllPaths(start, weight_type) ==
    /\ Idle
    /\ call' = [op |-> "get_all_paths", start |-> start,
                weight_type |-> weight_type]
    /\ ret' = [paths |-> get_all_paths(G, start, weight_type)]
    /\ UNCHANGED <<nodes, edges, coordinates>>

\* The orders in which a set can yield its elements.
RECURSIVE Orders(_)
Orders(S) ==
    IF S = {} THEN {<< >>}
    ELSE UNION { {<<x>> \o q : q \in Orders(S \ {x})} : x \in S }

RECURSIVE OrderOf(_)
OrderOf(S) ==
    IF S = {} THEN << >>
    ELSE LET x == CHOOSE y \in S : TRUE IN <<x>> \o OrderOf(S \ {x})

\* The iteration orders of self.nodes the model draws from: every order of
\* a set of at most MaxPermuted nodes, one order and its reverse of a
\* larger set.
IterOrders(S) ==
    IF Cardinality(S) <= MaxPermuted THEN Orders(S)
    ELSE {OrderOf(S), Reversed(OrderOf(S))}

ExportCsv(order) ==
    /\ Idle
    /\ call' = [op |-> "export_to_csv"]
    /\ ret' = [file |-> export_to_csv(G, order)]
    /\ UNCHANGED <<nodes, edges, coordinates>>

ExportJson(order) ==
    /\ Idle
    /\ call' = [op |-> "export_to_json"]
    /\ ret' = [file |-> export_to_json(G, order)]
    /\ UNCHANGED <<nodes, edges, coordinates>>

GetNetworkStatistics(order) ==
    /\ Idle
    /\ call' = [op |-> "get_network_statistics"]
    /\ ret' = [stats |-> get_network_statistics(G, order)]
    /\ UNCHANGED <<nodes, edges, coordinates>>

\* export_to_csv, then import_from_csv of the file written; the graph as
\* it was before is kept for the comparison.
RoundTripCsv(order) ==
    LET o == import_from_csv(G, export_to_csv(G, order))
    IN  /\ Idle
        /\ SetGraph(o.g)
        /\ call' = [op |-> "round_trip_csv"]
        /\ ret' = [raised |-> o.raised, before |-> G]

\* export_to_json, then import_from_json of the document written.
RoundTripJson(order) ==
    LET o == import_from_json(G, export_to_json(G, order))
    IN  /\ Idle
        /\ SetGraph(o.g)
        /\ call' = [op |-> "round_trip_json"]
        /\ ret' = [raised |-> o.raised, before |-> G]

\* dijkstra run one iteration of its loop at a time: ret holds the frontier,
\* the settled set and the distances table, call counts the pushes.
StartSearch(start, end, weight_type, order) ==
    /\ Idle
    /\ IF start \notin nodes \/ end \notin nodes
       THEN /\ ret' = [pq |-> {}, visited |-> {}, distances |-> EmptyMap,
                       done |-> TRUE, result |-> NoPath]
            /\ call' = [op |-> "search", start |-> start, end |-> end,
                        weight_type |-> weight_type, pushes |-> 0]
       ELSE /\ ret' = DijkstraStartIn(G, start, order)
            /\ call' = [op |-> "search", start |-> start, end |-> end,
                        weight_type |-> weight_type, pushes |-> 1]
    /\ UNCHANGED <<nodes, edges, coordinates>>

SearchStep ==
    /\ call.op = "search" /\ ~ret.done
    /\ ret' = DijkstraIter(G, ret, call.end, call.weight_type)
    /\ call' = [call EXCEPT !.pushes = @ + Cardinality(ret'.pq \ ret.pq)]
    /\ UNCHANGED <<nodes, edges, coordinates>>

\* dijkstra returns the result of the search.
SearchReturn ==
    /\ call.op = "search" /\ ret.done
    /\ call' = NoCall
    /\ ret' = NoRet
    /\ UNCHANGED <<nodes, edges, coordinates>>

\* The caller has taken the result of a query.
Return ==
    /\ ~Idle
    /\ call' = NoCall
    /\ ret' = NoRet
    /\ UNCHANGED <<nodes, edges, coordinates>>

PathNext ==
    \/ Idle /\ \E n \in PoolNodes : AddNode(n, NoCoords)
    \/ Idle /\ \E e \in EdgePool : AddEdge(e)
    \/ CreateNetwork
    \/ Idle /\ \E s \in QueryNodes, t \in QueryNodes, w \in WeightTypes :
                DijkstraCall(s, t, w)
    \/ Idle /\ \E s \in QueryNodes, t \in QueryNodes, w \in WeightTypes :
                RouteTest(s, t, w)
    \/ Idle /\ \E p \in SeqsUpTo(QueryNodes, MaxPathLen) : GetRouteDetails(p)
    \/ Idle /\ \E n \in QueryNodes : GetNeighbors(n)
    \/ Idle /\ \E s \in QueryNodes, w \in WeightTypes : GetAllPaths(s, w)
    \/ Return

\* Path queries over graphs built by add_node and add_edge.
PathSpec == Init /\ [][PathNext]_vars

Next ==
    \/ Idle /\ \E n \in PoolNodes, c \in CoordPool :
                (c = NoCoords \/ n \in CoordNodes) /\ AddNode(n, c)
    \/ Idle /\ \E e \in EdgePool : AddEdge(e)
    \/ CreateNetwork
    \/ Idle /\ \E k \in 1..Len(CsvFiles) : ImportCsv(k)
    \/ Idle /\ \E k \in 1..Len(JsonDocs) : ImportJson(k)
    \/ Return

\* The store under every mutation.
Spec == Init /\ [][Next]_vars

CodecNext ==
    \/ Idle /\ \E n \in PoolNodes : AddNode(n, NoCoords)
    \/ Idle /\ \E e \in EdgePool : AddEdge(e)
    \/ CreateNetwork
    \/ Idle /\ \E k \in 1..Len(JsonDocs) : ImportJson(k)
    \/ Idle /\ \E order \in IterOrders(nodes) : ExportCsv(order)
    \/ Idle /\ \E order \in IterOrders(nodes) : ExportJson(order)
    \/ Idle /\ \E order \in IterOrders(nodes) : RoundTripCsv(order)
    \/ Idle /\ \E order \in IterOrders(nodes) : RoundTripJson(order)
    \/ Idle /\ \E order \in IterOrders(nodes) : GetNetworkStatistics(order)
    \/ Return

\* Exports, and exports read back, of the graphs the store can hold.
CodecSpec == Init /\ [][CodecNext]_vars

QueryNext ==
    \/ Idle /\ \E n \in PoolNodes, c \in {NoCoords, <<1, 2>>} :
                (c = NoCoords \/ n = "A") /\ AddNode(n, c)
    \/ Idle /\ \E e \in EdgePool : AddEdge(e)
    \/ CreateNetwork
    \/ Idle /\ \E s \in QueryNodes, t \in QueryNodes, w \in WeightTypes :
                DijkstraCall(s, t, w)
    \/ Idle /\ \E s \in QueryNodes, w \in WeightTypes : GetAllPaths(s, w)
    \/ Idle /\ \E s \in QueryNodes, t \in QueryNodes :
                GetRouteDetails(<<s, t>>)
    \/ Idle /\ \E n \in QueryNodes : GetNeighbors(n)
    \/ Idle /\ \E order \in IterOrders(nodes) : GetNetworkStatistics(order)
    \/ Idle /\ \E order \in IterOrders(nodes) : ExportCsv(order)
    \/ Idle /\ \E order \in IterOrders(nodes) : ExportJson(order)
    \/ Return

\* Every query of the store between its mutations.
QuerySpec == Init /\ [][QueryNext]_vars

SearchNext ==
    \/ Idle /\ \E n \in PoolNodes : AddNode(n, NoCoords)
    \/ Idle /\ \E e \in EdgePool : AddEdge(e)
    \/ CreateNetwork
    \/ Idle /\ \E s \in QueryNodes, t \in QueryNodes, w \in WeightTypes,
                   order \in IterOrders(nodes) :
                StartSearch(s, t, w, order)
    \/ SearchStep
    \/ SearchReturn

\* The search of dijkstra, iteration by iteration.
SearchSpec == Init /\ [][SearchNext]_vars

----------------------------------------------------------------------------
(* Reference notions the properties are stated with *)

\* Every weight of the graph is non-negative.
NonNegative(g) ==
    \A n \in DOMAIN g.edges : \A k \in 1..Len(g.edges[n]) :
        g.edges[n][k][2] >= 0 /\ g.edges[n][k][3] >= 0

\* One more edge of every walk: from each (node, cost) every adjacency
\* entry of the node is followed, the weight added to the cost so far.
WalkExtend(g, R, weight_type) ==
    UNION { { <<g.edges[rc[1]][k][1],
                FAdd(rc[2], Weight(g.edges[rc[1]][k], weight_type))>> :
              k \in 1..Len(g.edges[rc[1]]) } : rc \in R }

RECURSIVE WalkReach(_, _, _, _)
WalkReach(g, R, weight_type, k) ==
    IF k = 0 THEN R
    ELSE WalkReach(g, R \cup WalkExtend(g, R, weight_type), weight_type, k - 1)

\* The costs, summed from start on, of the walks from start to end of at
\* most Cardinality(nodes) - 1 + WalkSlack edges.
WalkCosts(g, start, end, weight_type) ==
    LET R == WalkReach(g, {<<start, 0>>}, weight_type,
                       Cardinality(g.nodes) - 1 + WalkSlack)
    IN  {rc[2] : rc \in {x \in R : x[1] = end}}

SetMin(S) == CHOOSE m \in S : \A x \in S : m <= x

RECURSIVE Closure(_, _)
Closure(g, S) ==
    LET T == S \cup UNION { {g.edges[n][k][1] : k \in 1..Len(g.edges[n])} : n \in S }
    IN  IF T = S THEN S ELSE Closure(g, T)

\* end can be reached from start along adjacency entries.
Reachable(g, start, end) ==
    start \in g.nodes /\ end \in Closure(g, {start})

\* The costs a path can have: per consecutive pair one adjacency entry.
RECURSIVE PathCosts(_, _, _, _)
PathCosts(g, path, weight_type, i) ==
    IF i = 1 THEN {0}
    ELSE LET nbrs == get_neighbors(g, path[i - 1])
         IN  { FAdd(c, Weight(nbrs[k], weight_type)) :
                 c \in PathCosts(g, path, weight_type, i - 1),
                 k \in {j \in 1..Len(nbrs) : nbrs[j][1] = path[i]} }

\* The number of adjacency entries under a that name b.
Multiplicity(g, a, b) ==
    Cardinality({k \in 1..Len(get_neighbors(g, a)) : get_neighbors(g, a)[k][1] = b})

IsDijkstra == call.op = "dijkstra"

KnownEnds == call.start \in nodes /\ call.end \in nodes

SeedQuery ==
    /\ G = create_transportation_network
    /\ IsDijkstra
    /\ call.start = "Tagoloan" /\ call.end = "Indahag" /\ call.weight_type = "fare"

----------------------------------------------------------------------------
(* Properties *)

\* C1: with non-negative weights and end reachable from start, the cost
\* dijkstra returns is the minimum over the walks from start to end of the
\* weights of the metric summed along the walk; on the seed network the
\* cheapest fare from Tagoloan to Indahag is 95.
C1_MinimumCost ==
    /\ (IsDijkstra /\ KnownEnds /\ NonNegative(G)
          /\ Reachable(G, call.start, call.end))
        => ret.cost = SetMin(WalkCosts(G, call.start, call.end, call.weight_type))
    /\ SeedQuery => ret.cost = 95

C1_Witness ==
    /\ SeedQuery
    /\ ret.path = <<"Tagoloan", "Carmen", "Iponan", "Indahag">>
    /\ \E c \in WalkCosts(G, call.start, call.end, call.weight_type) : c = 100

\* C2: a non-empty path returned by dijkstra starts at start, ends at end,
\* repeats no node, follows adjacency entries, and the returned cost is the
\* sum of the metric's weight of one entry per consecutive pair.
C2_PathIsValid ==
    (IsDijkstra /\ ret.path # << >>) =>
        LET p == ret.path
        IN  /\ p[1] = call.start
            /\ p[Len(p)] = call.end
            /\ \A i, j \in 1..Len(p) : i # j => p[i] # p[j]
            /\ \A i \in 1..(Len(p) - 1) : Multiplicity(G, p[i], p[i + 1]) >= 1
            /\ ret.cost \in PathCosts(G, p, call.weight_type, Len(p))

C2_Witness ==
    /\ IsDijkstra
    /\ Len(ret.path) = 3
    /\ \E i \in 1..2 : Multiplicity(G, ret.path[i], ret.path[i + 1]) = 2

\* C3: dijkstra from a node of the graph to itself returns the path of
\* that node alone with cost 0.
C3_SelfRoute ==
    (IsDijkstra /\ call.start = call.end /\ call.start \in nodes)
        => ret = [path |-> <<call.start>>, cost |-> 0]

C3_Witness ==
    /\ IsDijkstra /\ call.start = call.end /\ call.start \in nodes
    /\ Multiplicity(G, call.start, call.start) >= 1
    /\ ~NonNegative(G)

\* C4: dijkstra with start or end outside the node set returns the
\* sentinel (empty path, infinity).
C4_UnknownNode ==
    (IsDijkstra /\ ~KnownEnds) => ret = NoPath

C4_Witness ==
    /\ IsDijkstra /\ ret = NoPath
    /\ call.start = UnknownNode /\ call.end = UnknownNode
    /\ nodes # {}

\* C5: with both ends in the node set and end not reachable from start
\* dijkstra returns the sentinel, and it returns the sentinel only if an
\* end is unknown or end is not reachable from start.
C5_Unreachable ==
    IsDijkstra =>
        /\ (KnownEnds /\ ~Reachable(G, call.start, call.end)) => ret = NoPath
        /\ (ret.path = << >> \/ ret.cost = Infinity)
              => (~KnownEnds \/ ~Reachable(G, call.start, call.end))

C5_Witness ==
    /\ IsDijkstra /\ KnownEnds /\ ret = NoPath
    /\ NumEdges(G) >= 2

\* C6 as claimed: with non-negative weights the cost from u to v equals the
\* cost from v to u.
C6_SymmetricCost ==
    (IsDijkstra /\ KnownEnds /\ NonNegative(G) /\ Reachable(G, call.start, call.end))
        => ret.cost = dijkstra(G, call.end, call.start, call.weight_type).cost

RECURSIVE SumWeights(_, _, _)
SumWeights(nbrs, weight_type, k) ==
    IF k = 0 THEN 0
    ELSE SumWeights(nbrs, weight_type, k - 1) + Weight(nbrs[k], weight_type)

RECURSIVE TotalWeight(_, _, _)
TotalWeight(g, weight_type, ks) ==
    IF ks = {} THEN 0
    ELSE LET n == CHOOSE x \in ks : TRUE
         IN  SumWeights(g.edges[n], weight_type, Len(g.edges[n]))
               + TotalWeight(g, weight_type, ks \ {n})

\* No sum of weights of the graph is large enough to be rounded.
ExactSums(g, weight_type) ==
    TotalWeight(g, weight_type, DOMAIN g.edges) <= Pow2(MantBits)

\* C6 amended: with non-negative weights whose sums are exact, the cost
\* from u to v equals the cost from v to u.
C6_SymmetricCostExact ==
    (IsDijkstra /\ KnownEnds /\ NonNegative(G) /\ Reachable(G, call.start, call.end)
       /\ ExactSums(G, call.weight_type))
        => ret.cost = dijkstra(G, call.end, call.start, call.weight_type).cost

C6_Witness ==
    /\ IsDijkstra /\ NonNegative(G) /\ ExactSums(G, call.weight_type)
    /\ Len(ret.path) = 4
    /\ ret.cost > 0
    /\ G # create_transportation_network

\* C8: for a path dijkstra returned with no parallel edges between its
\* consecutive nodes, the breakdown's distances sum to the cost when the
\* metric is distance and its fares sum to the cost when the metric is fare.
C8_Consistency ==
    (call.op = "route_test" /\ ret.path # << >>
       /\ \A i \in 1..(Len(ret.path) - 1) :
             Multiplicity(G, ret.path[i], ret.path[i + 1]) = 1)
        => /\ call.weight_type = "distance" => ret.total_distance = ret.cost
           /\ call.weight_type = "fare" => ret.total_fare = ret.cost

C8_Witness ==
    /\ call.op = "route_test" /\ Len(ret.path) = 4
    /\ \A i \in 1..3 : Multiplicity(G, ret.path[i], ret.path[i + 1]) = 1
    /\ ret.total_distance # ret.total_fare
    /\ ret.cost > 0

IsDetails == call.op = "get_route_details"

\* Record i of the breakdown is the leg path[i] -> path[i+1].
LegsMatch(path, details) ==
    /\ Len(details) = Len(path) - 1
    /\ \A i \in 1..Len(details) :
          details[i].from = path[i] /\ details[i].to = path[i + 1]

\* C9 as claimed: for every path of n >= 1 nodes get_route_details gives
\* n-1 records, record i being the leg path[i] -> path[i+1].
C9_OneRecordPerLeg ==
    (IsDetails /\ Len(call.path) >= 1) => LegsMatch(call.path, ret.details)

\* C9 amended: so it is for every path whose consecutive nodes are each
\* joined by an adjacency entry.
C9_OneRecordPerEdge ==
    (IsDetails /\ Len(call.path) >= 1
       /\ \A i \in 1..(Len(call.path) - 1) :
             Multiplicity(G, call.path[i], call.path[i + 1]) >= 1)
        => LegsMatch(call.path, ret.details)

C9_Witness ==
    /\ IsDetails /\ Len(call.path) = 3 /\ Len(ret.details) = 2
    /\ call.path[1] # call.path[3]

\* C10: get_route_details yields the records and with them the total
\* distance, the total fare and the efficiency, total fare / total
\* distance, which is 0 when the total distance is 0.
C10_TotalsReturned ==
    IsDetails =>
        /\ DOMAIN ret = {"details", "total_distance", "total_fare", "efficiency"}
        /\ ret.total_distance = SumField(ret.details, "distance", Len(ret.details))
        /\ ret.total_fare = SumField(ret.details, "fare", Len(ret.details))
        /\ ret.total_distance = 0 => ret.efficiency = 0
        /\ ret.total_distance # 0
              => ret.efficiency * ret.total_distance = ret.total_fare


\* The number of entries of a list equal to entry.
Count(nbrs, entry) == Cardinality({k \in 1..Len(nbrs) : nbrs[k] = entry})

AllEntries(g) ==
    UNION { {g.edges[n][k] : k \in 1..Len(g.edges[n])} : n \in DOMAIN g.edges }

\* C7: adjacency is symmetric: for all nodes u, v and weights (d, f), u
\* holds as many entries (v, d, f) as v holds entries (u, d, f).
C7_SymmetricAdjacency ==
    \A u \in DOMAIN edges : \A e \in AllEntries(G) :
        LET v == e[1]
        IN  /\ v \in DOMAIN edges
            /\ Count(edges[u], <<v, e[2], e[3]>>) = Count(edges[v], <<u, e[2], e[3]>>)

C7_Witness ==
    /\ call.op = "import_from_csv" /\ ret.raised = "none"
    /\ \E u \in DOMAIN edges : Len(edges[u]) = 2
    /\ NumEdges(G) = 2

\* C11: add_node on a node of the graph leaves the node set and every
\* adjacency entry as they are; on a new node it adds the node with an empty
\* adjacency entry; given coordinates it stores them for the node over any
\* stored before, and given none it leaves the coordinate map as it is.
C11_AddNodeIdempotent ==
    [][\A n \in PoolNodes, c \in CoordPool :
          AddNode(n, c) =>
              /\ n \in nodes => nodes' = nodes /\ edges' = edges
              /\ n \notin nodes =>
                    /\ nodes' = nodes \cup {n}
                    /\ DOMAIN edges' = DOMAIN edges \cup {n}
                    /\ edges'[n] = << >>
                    /\ \A m \in DOMAIN edges : edges'[m] = edges[m]
              /\ c # NoCoords =>
                    /\ DOMAIN coordinates' = DOMAIN coordinates \cup {n}
                    /\ coordinates'[n] = c
                    /\ \A m \in DOMAIN coordinates \ {n} :
                          coordinates'[m] = coordinates[m]
              /\ c = NoCoords => coordinates' = coordinates]_vars

\* A node with edges and a stored coordinate, another node with a different
\* coordinate: add_node on the first is the case of the claim.
C11_Witness ==
    \E n \in nodes, m \in nodes :
        /\ n # m
        /\ Len(edges[n]) >= 2
        /\ n \in DOMAIN coordinates /\ coordinates[n] = <<1, 2>>
        /\ m \in DOMAIN coordinates /\ coordinates[m] = <<0, 0>>

\* The adjacency list of a node before a step, empty when it has none.
ListOf(m) == IF m \in DOMAIN edges THEN edges[m] ELSE << >>

\* C12: add_edge(u, v, distance, fare) makes u and v nodes, puts the entry
\* (v, distance, fare) at the end of u's list and (u, distance, fare) at the
\* end of v's (both at the end of the one list when u = v), and leaves every
\* other entry and every coordinate as it was; it does so for every edge it
\* is given: a pair joined already, a negative weight, u = v.
C12_AddEdgeAppends ==
    [][\A e \in EdgePool :
          AddEdge(e) =>
              LET u == e[1]
                  v == e[2]
                  toV == <<v, e[3], e[4]>>
                  toU == <<u, e[3], e[4]>>
              IN  /\ nodes' = nodes \cup {u, v}
                  /\ DOMAIN edges' = DOMAIN edges \cup {u, v}
                  /\ coordinates' = coordinates
                  /\ \A m \in DOMAIN edges \ {u, v} : edges'[m] = edges[m]
                  /\ u # v => /\ edges'[u] = Append(ListOf(u), toV)
                              /\ edges'[v] = Append(ListOf(v), toU)
                  /\ u = v => edges'[u] = ListOf(u) \o <<toV, toU>>]_vars

\* The edge A-B added twice and the loop B-B, in a graph with a coordinate:
\* B's list holds both parallel entries and both ends of the loop.
C12_Witness ==
    /\ "A" \in nodes /\ "B" \in nodes
    /\ Multiplicity(G, "A", "B") = 2
    /\ Multiplicity(G, "B", "B") = 2
    /\ Len(edges["B"]) = 4
    /\ DOMAIN coordinates # {}

\* C13: get_neighbors(u) returns the entries recorded for u, which stand in
\* the order their edges were added (add_edge keeps the entries a list has
\* at their positions and puts the new ones after them); for a node the
\* graph does not have it returns the empty sequence; it changes neither
\* the node set nor the adjacency.
C13_NeighborsInOrder ==
    [][/\ \A e \in EdgePool :
            AddEdge(e) =>
                \A m \in DOMAIN edges :
                    /\ Len(edges'[m]) >= Len(edges[m])
                    /\ SubSeq(edges'[m], 1, Len(edges[m])) = edges[m]
       /\ \A u \in QueryNodes :
            GetNeighbors(u) =>
                /\ u \in nodes => ret'.neighbors = edges[u]
                /\ u \notin nodes => ret'.neighbors = << >>
                /\ nodes' = nodes /\ edges' = edges
                /\ coordinates' = coordinates]_vars

\* get_neighbors has returned three entries to three different neighbours.
C13_Witness ==
    /\ call.op = "get_neighbors"
    /\ Len(ret.neighbors) = 3
    /\ Cardinality({ret.neighbors[k][1] : k \in 1..3}) = 3

\* C14: get_all_paths(start, metric) returns a mapping whose keys are the
\* nodes of the graph other than start and whose value at every node n is
\* the result of dijkstra(start, n, metric); a node not reachable from
\* start, and every node when start is no node of the graph, is mapped to
\* the empty path with infinite cost.
C14_AllPaths ==
    call.op = "get_all_paths" =>
        /\ DOMAIN ret.paths = nodes \ {call.start}
        /\ \A n \in nodes \ {call.start} :
              /\ ret.paths[n] = dijkstra(G, call.start, n, call.weight_type)
              /\ (call.start \notin nodes \/ ~Reachable(G, call.start, n))
                    => ret.paths[n] = NoPath

\* From a node of the graph: one node is reached over two edges, another
\* is not reached.
C14_Witness ==
    /\ call.op = "get_all_paths"
    /\ call.start \in nodes
    /\ \E n \in DOMAIN ret.paths, m \in DOMAIN ret.paths :
          /\ Len(ret.paths[n].path) = 3
          /\ ret.paths[m] = NoPath

\* The position in nbrs of the j-th entry that names node v, from k on.
RECURSIVE Occurrence(_, _, _, _)
Occurrence(nbrs, v, j, k) ==
    IF nbrs[k][1] = v
    THEN IF j = 1 THEN k ELSE Occurrence(nbrs, v, j - 1, k + 1)
    ELSE Occurrence(nbrs, v, j, k + 1)

\* An adjacency entry with the weight of the metric larger by delta.
Raised(entry, weight_type, delta) ==
    IF weight_type = "fare"
    THEN <<entry[1], entry[2], FAdd(entry[3], delta)>>
    ELSE <<entry[1], FAdd(entry[2], delta), entry[3]>>

\* The graph that differs from g in the weight of one edge: the j-th of the
\* edges joining u and v (u # v), whose two entries are the j-th that names
\* v in u's list and the j-th that names u in v's.
RaiseEdge(g, u, v, j, weight_type, delta) ==
    LET ku == Occurrence(g.edges[u], v, j, 1)
        kv == Occurrence(g.edges[v], u, j, 1)
    IN  Graph(g.nodes,
              [g.edges EXCEPT ![u][ku] = Raised(@, weight_type, delta),
                              ![v][kv] = Raised(@, weight_type, delta)],
              g.coordinates)

\* Amounts an edge weight is increased by.
Raises == {1, 3}

\* The simple paths from the first node of the paths in P, grown by at most
\* k more nodes.
RECURSIVE SimplePaths(_, _, _)
SimplePaths(g, P, k) ==
    IF k = 0 THEN P
    ELSE LET Next1(p) ==
                 LET nbrs == g.edges[p[Len(p)]]
                     seen == {p[x] : x \in 1..Len(p)}
                 IN  { Append(p, nbrs[i][1]) :
                         i \in {x \in 1..Len(nbrs) : nbrs[x][1] \notin seen} }
         IN  SimplePaths(g, P \cup UNION {Next1(p) : p \in P}, k - 1)

\* The path r.path is the only optimal one: every other simple path from
\* start to end costs more, and each of its legs has one cheapest edge.
UniqueOptimal(g, start, end, weight_type, r) ==
    /\ \A q \in SimplePaths(g, {<<start>>}, Cardinality(g.nodes) - 1) :
          (q[Len(q)] = end /\ q # r.path)
              => SetMin(PathCosts(g, q, weight_type, Len(q))) > r.cost
    /\ \A i \in 1..(Len(r.path) - 1) :
          LET nbrs == g.edges[r.path[i]]
              legs == {k \in 1..Len(nbrs) : nbrs[k][1] = r.path[i + 1]}
          IN  \E k \in legs : \A m \in legs \ {k} :
                  Weight(nbrs[k], weight_type) < Weight(nbrs[m], weight_type)

\* C15: with non-negative weights, increasing the weight of the metric on
\* one edge between two consecutive nodes of the path dijkstra returned
\* never makes the cost dijkstra reports for the same query smaller; this
\* holds for every returned path, the unique optimal ones among them.
C15_Monotone ==
    (IsDijkstra /\ NonNegative(G) /\ ret.path # << >>) =>
        \A i \in 1..(Len(ret.path) - 1), d \in Raises :
            \A j \in 1..Multiplicity(G, ret.path[i], ret.path[i + 1]) :
                dijkstra(RaiseEdge(G, ret.path[i], ret.path[i + 1], j,
                                   call.weight_type, d),
                         call.start, call.end, call.weight_type).cost
                    >= ret.cost

\* The returned path of two edges is the only optimal one, and raising one
\* of its edges makes the search return another path at a larger cost.
C15_Witness ==
    /\ IsDijkstra /\ NonNegative(G) /\ Len(ret.path) = 3
    /\ UniqueOptimal(G, call.start, call.end, call.weight_type, ret)
    /\ \E i \in 1..2, d \in Raises :
          LET r == dijkstra(RaiseEdge(G, ret.path[i], ret.path[i + 1], 1,
                                      call.weight_type, d),
                            call.start, call.end, call.weight_type)
          IN  r.path # ret.path /\ r.cost > ret.cost

IsImport == call.op \in {"import_from_csv", "import_from_json"}

\* What an import of the file of the call leaves when the graph it is
\* called on is a new, empty one.
FreshImport ==
    IF call.op = "import_from_csv"
    THEN import_from_csv(EmptyGraph, CsvFiles[call.file])
    ELSE import_from_json(EmptyGraph, JsonDocs[call.file])

\* C16: after an import that raised nothing, whatever the graph was before,
\* the node set and the adjacency are those the records of the file build
\* through add_edge on an empty graph: every node is an end of an edge of
\* the file, nothing of the graph before remains, and no coordinate is
\* stored.
C16_ImportReplaces ==
    (IsImport /\ ret.raised = "none") =>
        /\ coordinates = EmptyMap
        /\ nodes = FreshImport.g.nodes
        /\ edges = FreshImport.g.edges
        /\ DOMAIN edges = nodes
        /\ \A n \in nodes : edges[n] # << >>

\* import_from_json has rebuilt the graph from a document of two records.
C16_Witness ==
    /\ call.op = "import_from_json" /\ ret.raised = "none"
    /\ nodes = {"A", "B", "C"}
    /\ NumEdges(G) = 2
    /\ coordinates = EmptyMap

\* The unordered pairs of nodes joined by at least one edge.
JoinedPairs(g) ==
    UNION { { {n, g.edges[n][k][1]} : k \in 1..Len(g.edges[n]) } :
            n \in DOMAIN g.edges }

\* The deduplicated edge set: per joined pair the pair with the distance
\* and the fare of the first edge added between its nodes.
DedupEdges(g) ==
    { LET n == CHOOSE x \in pair : TRUE
          m == IF pair = {n} THEN n ELSE CHOOSE x \in pair : x # n
          e == g.edges[n][FirstMatch(g.edges[n], m, 1)]
      IN  <<pair, e[2], e[3]>> : pair \in JoinedPairs(g) }

IsRoundTrip == call.op \in {"round_trip_csv", "round_trip_json"}

\* C17: after export_to_csv and import_from_csv of the file written, and
\* after export_to_json and import_from_json of the document written, the
\* deduplicated edge set of the graph is that of the graph before.
C17_RoundTrip ==
    IsRoundTrip =>
        /\ ret.raised = "none"
        /\ DedupEdges(G) = DedupEdges(ret.before)

\* The unordered pair of nodes a written row names.
RowPair(row) == {row[1], row[2]}

Field(file, i, keys) == FirstTruthy(file.header, file.rows[i], keys, 1, None)

\* Row i has an origin and a destination that are not blank.
Named(file, i) ==
    /\ Field(file, i, OriginKeys) # None
    /\ Strip(Field(file, i, OriginKeys)) # ""
    /\ Field(file, i, DestinationKeys) # None
    /\ Strip(Field(file, i, DestinationKeys)) # ""

\* The named rows with a distance or a fare that is no number.
BadNumberRows(file) ==
    { i \in 1..Len(file.rows) :
        /\ Named(file, i)
        /\ \/ /\ Field(file, i, DistanceKeys) # None
               /\ ~Parses(Field(file, i, DistanceKeys))
           \/ /\ Field(file, i, FareKeys) # None
               /\ ~Parses(Field(file, i, FareKeys)) }

\* C19: when a row of the file with an origin and a destination has a
\* distance or a fare that is no number, import_from_csv ends in an error
\* that carries the index of the first such row, and the graph holds no
\* edge for that row: only the edges of the rows before it.
C19_RowIdentified ==
    (call.op = "import_from_csv" /\ CsvFiles[call.file].readable
        /\ BadNumberRows(CsvFiles[call.file]) # {}) =>
        LET bad == SetMin(BadNumberRows(CsvFiles[call.file]))
        IN  /\ ret.raised # "none"
            /\ "row" \in DOMAIN ret
            /\ ret.row = bad
            /\ NumEdges(G) <= bad - 1

\* The rows of a CSV file that lack a required field: no non-empty cell
\* for the origin, the destination, the distance or the fare.
LackingRows(file) ==
    { i \in 1..Len(file.rows) :
        \/ Field(file, i, OriginKeys) = None
        \/ Strip(Field(file, i, OriginKeys)) = ""
        \/ Field(file, i, DestinationKeys) = None
        \/ Strip(Field(file, i, DestinationKeys)) = ""
        \/ Field(file, i, DistanceKeys) = None
        \/ Field(file, i, FareKeys) = None }

\* The records of a JSON document, whichever member holds them.
RecordsOf(doc) ==
    IF doc.kind = "array" THEN doc.items
    ELSE IF "routes" \in DOMAIN doc.members THEN doc.members.routes
    ELSE IF "edges" \in DOMAIN doc.members THEN doc.members.edges
    ELSE << >>

LackingRecords(doc) ==
    { i \in 1..Len(RecordsOf(doc)) :
        ~({"origin", "destination", "distance", "fare"}
              \subseteq DOMAIN RecordsOf(doc)[i]) }

\* The rows or records of the imported file that lack a required field.
Lacking ==
    IF call.op = "import_from_csv" THEN LackingRows(CsvFiles[call.file])
    ELSE LackingRecords(JsonDocs[call.file])

Readable ==
    IF call.op = "import_from_csv" THEN CsvFiles[call.file].readable
    ELSE JsonDocs[call.file].readable

\* C20: when a row or record of the file lacks a required field, the
\* import ends in a MalformedInput error that carries the index of the
\* first such row or record; the row is neither added with a weight of zero
\* nor passed over.
C20_MissingFieldReported ==
    (IsImport /\ Readable /\ Lacking # {}) =>
        /\ ret.raised = "MalformedInput"
        /\ "row" \in DOMAIN ret
        /\ ret.row = SetMin(Lacking)

\* The graph add_edge builds from the two records of JsonRecords, called
\* once per record in the order of the list.
TwoRecordGraph ==
    Graph({"A", "B", "C"},
          [n \in {"A", "B", "C"} |->
              CASE n = "A" -> << <<"B", 3, 2>> >>
                [] n = "B" -> << <<"A", 3, 2>>, <<"C", 1, 2>> >>
                [] n = "C" -> << <<"B", 1, 2>> >>],
          EmptyMap)

\* C21: import_from_json of a document that holds the records of
\* JsonRecords, be it under routes, under edges or as an array, raises
\* nothing and leaves the graph add_edge builds from the records in list
\* order.
C21_ThreeShapes ==
    (call.op = "import_from_json" /\ JsonDocs[call.file].readable
        /\ RecordsOf(JsonDocs[call.file]) = JsonRecords) =>
        /\ ret.raised = "none"
        /\ G = TwoRecordGraph

\* The records were read from under the edges key.
C21_Witness ==
    /\ call.op = "import_from_json" /\ ret.raised = "none"
    /\ JsonDocs[call.file].kind = "object"
    /\ "edges" \in DOMAIN JsonDocs[call.file].members
    /\ G = TwoRecordGraph

\* The records a call has returned: those of the breakdown of the route
\* query and those of get_route_details.
HasDetails == call.op \in {"route_test", "get_route_details"}

\* C22: every record of a breakdown carries the distance and the fare of
\* the first-inserted of the edges between its two nodes: of the entry in
\* the list of its from node that names its to node and has no such entry
\* before it, whichever of the parallel edges the search took its cost
\* from.
C22_FirstInserted ==
    HasDetails =>
        \A i \in 1..Len(ret.details) :
            LET r    == ret.details[i]
                nbrs == edges[r.from]
            IN  \E k \in 1..Len(nbrs) :
                    /\ nbrs[k][1] = r.to
                    /\ \A j \in 1..(k - 1) : nbrs[j][1] # r.to
                    /\ r.distance = nbrs[k][2]
                    /\ r.fare = nbrs[k][3]

\* A route of one leg with two parallel edges, the later one shorter: the
\* search reports the distance of the later edge, the record that of the
\* first.
C22_Witness ==
    /\ call.op = "route_test" /\ call.weight_type = "distance"
    /\ Len(ret.path) = 2 /\ Len(ret.details) = 1
    /\ Multiplicity(G, ret.path[1], ret.path[2]) = 2
    /\ ret.details[1].distance = edges[ret.path[1]][1][2]
    /\ ret.cost < ret.details[1].distance

\* The edges a written CSV file holds: per row the unordered pair with the
\* numbers its two texts stand for.
CsvEdges(file) ==
    { <<RowPair(file.rows[i]),
        FloatTable[file.rows[i][3]], FloatTable[file.rows[i][4]]>> :
      i \in 1..Len(file.rows) }

\* The edges a written JSON document holds.
JsonEdges(doc) ==
    { <<{doc.members.routes[i].origin, doc.members.routes[i].destination},
        JsonFloat(doc.members.routes[i].distance),
        JsonFloat(doc.members.routes[i].fare)>> :
      i \in 1..Len(doc.members.routes) }

\* What the two exports have in common with the claim: one record per
\* joined pair, with the weights of the first-inserted edge of the pair.
ExportsDeduplicated ==
    /\ call.op = "export_to_csv" =>
          /\ Len(ret.file.rows) = Cardinality(JoinedPairs(G))
          /\ CsvEdges(ret.file) = DedupEdges(G)
    /\ call.op = "export_to_json" =>
          /\ Len(ret.file.members.routes) = Cardinality(JoinedPairs(G))
          /\ JsonEdges(ret.file) = DedupEdges(G)

\* The statistics count the joined pairs and take their extremes over the
\* first-inserted edges.
StatsDeduplicated ==
    /\ "total_edges" \in DOMAIN ret.stats
    /\ ret.stats.total_edges = Cardinality(JoinedPairs(G))
    /\ DedupEdges(G) # {} =>
          /\ ret.stats.distance_stats.min = SetMin({e[2] : e \in DedupEdges(G)})
          /\ ret.stats.fare_stats.min = SetMin({e[3] : e \in DedupEdges(G)})

\* C23 as stated: for any graph and any iteration order of the node set
\* each export holds exactly one record per joined pair, with the weights
\* of the first-inserted edge of the pair (so both hold the same edge set),
\* and the total edge count of the statistics is the number of joined pairs.
C23_DedupScan ==
    /\ ExportsDeduplicated
    /\ call.op = "get_network_statistics" => StatsDeduplicated

\* C23: so it is for the exports of any graph and for the statistics of
\* any graph that has a node; of a graph without nodes the statistics are
\* the empty mapping, without a count.
C23_DedupScanNonEmpty ==
    /\ ExportsDeduplicated
    /\ call.op = "get_network_statistics" =>
          IF nodes = {} THEN ret.stats = EmptyMap ELSE StatsDeduplicated

\* The statistics of a graph of three edges, two of them parallel and one
\* a loop: two edges are counted.
C23_Witness ==
    /\ call.op = "get_network_statistics"
    /\ NumEdges(G) = 3
    /\ ret.stats.total_edges = 2
    /\ \E n \in nodes : Multiplicity(G, n, n) = 2

\* A step is an iteration of the loop of a search.
Iterates == call.op = "search" /\ call'.op = "search"

\* C24: an iteration happens only while the destination is not settled; it
\* takes one entry from the frontier.  When the node of that entry is
\* settled already the entry is dropped and nothing else changes; else the
\* node is settled, once; when it is the destination the search is over
\* with the path and cost of the entry, and no neighbour is expanded.
C24_SettledOnce ==
    [][(Iterates /\ ret.pq # {}) =>
          /\ ~ret.done
          /\ call.end \notin ret.visited
          /\ Cardinality(ret.pq \ ret'.pq) = 1
          /\ LET top == CHOOSE e \in ret.pq \ ret'.pq : TRUE
             IN  /\ top[2] \in ret.visited =>
                       /\ ret'.visited = ret.visited
                       /\ ret'.distances = ret.distances
                       /\ ret'.pq = ret.pq \ {top}
                       /\ ~ret'.done
                 /\ top[2] \notin ret.visited =>
                       ret'.visited = ret.visited \cup {top[2]}
                 /\ (top[2] \notin ret.visited /\ top[2] = call.end) =>
                       /\ ret'.done
                       /\ ret'.result = [path |-> top[3], cost |-> top[1]]
                       /\ ret'.distances = ret.distances
                       /\ ret'.pq = ret.pq \ {top}
                 /\ (top[2] \notin ret.visited /\ top[2] # call.end) =>
                       ~ret'.done]_vars

\* A search under way whose frontier holds an entry of a settled node,
\* to be dropped when it is popped.
C24_Witness ==
    /\ call.op = "search" /\ ~ret.done
    /\ \E e \in ret.pq : e[2] \in ret.visited

\* C25: the entry an iteration takes from the frontier is the one of least
\* cost, among those of least cost the one of the smallest node
\* identifier, and among those the one of the smallest path; and the
\* result of a finished search is the result of the search started from
\* any iteration order of the node set.
C25_TieBreak ==
    [][(Iterates /\ ret.pq # {}) =>
          /\ LET top == CHOOSE e \in ret.pq \ ret'.pq : TRUE
             IN  \A o \in ret.pq \ {top} :
                     /\ top[1] <= o[1]
                     /\ top[1] = o[1] =>
                            \/ Rank(top[2]) < Rank(o[2])
                            \/ top[2] = o[2] /\ SeqLess(top[3], o[3])
          /\ ret'.done =>
                \A order \in IterOrders(nodes) :
                    ret'.result =
                        DijkstraLoop(G, DijkstraStartIn(G, call.start, order),
                                     call.end, call.weight_type)]_vars

\* A search about to pop from a frontier whose two cheapest entries cost the
\* same and name different nodes.
C25_Witness ==
    /\ call.op = "search" /\ ~ret.done
    /\ \E a \in ret.pq, b \in ret.pq :
          /\ a[2] # b[2] /\ a[1] = b[1]
          /\ \A o \in ret.pq : a[1] <= o[1]

\* The operations that only ask.
QueryOps ==
    {"dijkstra", "get_all_paths", "get_route_details", "get_neighbors",
     "get_network_statistics", "export_to_csv", "export_to_json"}

\* C26: a step that calls a query, whatever its arguments, and the step
\* that hands its result back leave the node set, every adjacency list and
\* the coordinates as they were.
C26_QueriesReadOnly ==
    [][(call'.op \in QueryOps \/ call.op \in QueryOps) =>
          /\ nodes' = nodes
          /\ edges' = edges
          /\ coordinates' = coordinates]_vars

\* The neighbours of a node the graph does not have were asked for, of a
\* graph with edges and coordinates.
C26_Witness ==
    /\ call.op = "get_neighbors"
    /\ call.node \notin nodes
    /\ NumEdges(G) > 0
    /\ DOMAIN coordinates # {}

\* C27: the keys of the adjacency are the nodes, and every neighbour an
\* adjacency entry names is a node.
C27_AdjacencyClosed ==
    /\ DOMAIN edges = nodes
    /\ \A n \in DOMAIN edges : \A i \in 1..Len(edges[n]) :
           edges[n][i][1] \in nodes

\* import_from_csv has built, over whatever was there, a graph whose three
\* nodes all came into being through add_edge.
C27_Witness ==
    /\ call.op = "import_from_csv" /\ ret.raised = "none"
    /\ nodes = {"A", "C", "D"}
    /\ NumEdges(G) = 2

\* The entries of all adjacency lists.
AdjacencyEntries == SumLens(edges, DOMAIN edges)

\* What a search has left to do: the entries of its frontier and the
\* adjacency entries of the nodes it has not settled.
Remaining(st) == Cardinality(st.pq) + SumLens(edges, nodes \ st.visited)

\* C28: every iteration of a search that does not end it leaves strictly
\* less to do; the entries pushed since the start, the first one included,
\* are at most the adjacency entries plus one; and the search ends by
\* popping the destination or on an empty frontier.
C28_Terminates ==
    [][Iterates =>
          /\ ~ret'.done => Remaining(ret') < Remaining(ret)
          /\ call'.pushes <= AdjacencyEntries + 1
          /\ ret'.done =>
                \/ ret.pq = {} /\ ret'.result = NoPath
                \/ \E e \in ret.pq :
                      /\ e[2] = call.end
                      /\ ret'.result = [path |-> e[3], cost |-> e[1]]]_vars

\* A search by distance has ended on an empty frontier after settling a
\* node with a self-loop and a node with an edge of negative distance.
C28_Witness ==
    /\ call.op = "search" /\ ret.done
    /\ call.weight_type = "distance"
    /\ ret.result = NoPath
    /\ call.pushes >= 3
    /\ \E n \in ret.visited : \E i \in 1..Len(edges[n]) : edges[n][i][1] = n
    /\ \E n \in ret.visited : \E i \in 1..Len(edges[n]) : edges[n][i][2] < 0

\* Ways to change a weight: to zero, to its double and one, to its negative.
Changes == {"zero", "stretch", "negate"}

Changed(x, how) ==
    IF how = "zero" THEN 0
    ELSE IF how = "stretch" THEN 2 * x + 1
    ELSE 0 - x

\* The graph that differs from g in the weights the metric does not name:
\* every fare when the metric is not 'fare', every distance when it is.
OtherWeightsChanged(g, weight_type, how) ==
    Graph(g.nodes,
          [n \in DOMAIN g.edges |->
              [i \in 1..Len(g.edges[n]) |->
                  LET e == g.edges[n][i]
                  IN  IF weight_type = "fare"
                      THEN <<e[1], Changed(e[2], how), e[3]>>
                      ELSE <<e[1], e[2], Changed(e[3], how)>>]],
          g.coordinates)

\* Metric values that are neither of the two named ones.
OtherMetrics == {"time", "Fare", ""}

\* C29: the result of a search by fare is the result of the same search
\* on the graph with all distances changed, the result of a search by
\* distance that on the graph with all fares changed, and a search with a
\* metric that is not 'fare' gives the result of the search by distance.
C29_OneDimension ==
    call.op = "dijkstra" =>
        /\ \A how \in Changes :
               dijkstra(OtherWeightsChanged(G, call.weight_type, how),
                        call.start, call.end, call.weight_type) = ret
        /\ call.weight_type = "distance" =>
               \A w \in OtherMetrics :
                   dijkstra(G, call.start, call.end, w) = ret

\* A search found a path, and the search by the other metric between the
\* same nodes finds another one.
C29_Witness ==
    /\ call.op = "dijkstra"
    /\ ret.path # << >>
    /\ \E w \in WeightTypes \ {call.weight_type} :
          LET r == dijkstra(G, call.start, call.end, w)
          IN  r.path # << >> /\ r.path # ret.path

\* The file or document of the import of the call cut after its first k
\* rows or records, read into a new graph.
PrefixImport(k) ==
    IF call.op = "import_from_csv"
    THEN import_from_csv(EmptyGraph,
             [CsvFiles[call.file] EXCEPT !.rows = SubSeq(@, 1, k)])
    ELSE LET doc == JsonDocs[call.file]
         IN  import_from_json(EmptyGraph,
                 [readable |-> TRUE, kind |-> "array",
                  items |-> SubSeq(RecordsOf(doc), 1, k)])

\* The rows or records of the file of the call.
ImportLength ==
    IF call.op = "import_from_csv" THEN Len(CsvFiles[call.file].rows)
    ELSE Len(RecordsOf(JsonDocs[call.file]))

\* C30: after an import of a file that could not be opened the graph is
\* empty, whatever it was before; after an import that raised on a row or
\* record the graph is the one the rows or records before that one build
\* on an empty graph, and empty when there are none.
C30_FailedImport ==
    IsImport =>
        /\ ret.raised = "OSError" => G = EmptyGraph
        /\ ret.raised \notin {"none", "OSError"} =>
              \/ ImportLength = 0 /\ G = EmptyGraph
              \/ \E k \in 1..ImportLength :
                    /\ PrefixImport(k - 1) = Outcome(G, "none")
                    /\ PrefixImport(k).raised = ret.raised

\* import_from_csv has raised on the second row of its file and left the
\* edge of the first row, alone.
C30_Witness ==
    /\ call.op = "import_from_csv" /\ ret.raised = "ValueError"
    /\ G = add_edge(EmptyGraph, "A", "B", 2, 1)

====
